---- MODULE Spec2Model ----
(***************************************************************************)
(* Model of the task/workflow engine of pymatgen.io.abinitio.workflow:     *)
(* AbinitTask.run, Work.register_input, Work.run (sequential and pooled)   *)
(* and Work.start, with the file locks they take.                          *)
(*                                                                         *)
(* Threads.  Main is the caller's control path (it registers inputs and    *)
(* then calls Work.start or Work.run once).  Worker(i) are the daemon      *)
(* threads Work.run starts in its threaded branch.  Other is a second      *)
(* logical thread of the same process that calls AbinitTask.run on one     *)
(* registered task directly.                                               *)
(*                                                                         *)
(* Spec      one caller (Main) with its workers; lock files of an earlier  *)
(*           process may exist when the Work is constructed.               *)
(* FairSpec  Spec with every thread scheduled fairly.                      *)
(* SpecConc  Main running the Work sequentially while Other calls run()    *)
(*           on one of its tasks.                                          *)
(***************************************************************************)
EXTENDS Integers, Sequences, FiniteSets, TLC

\* ------------------------------------------------------------------ bounds
\* Largest number of inputs registered with the Work.
MaxTasks == 3
\* Largest value of the num_pythreads keyword passed to Work.run / Work.start.
MaxPythreads == 2
\* Task directories that may exist before the program starts.
MaxOldDirs == 1
\* build() calls followed on one task.
MaxBuilds == 2
\* Longest list of tags passed to with_odata.
MaxTags == 2
\* Largest number of dependencies of one registration.
MaxDeps == 2

\* ------------------------------------------------------------------ threads
Main == <<"main">>
Other == <<"other">>
Worker(i) == <<"worker", i>>
Workers == {Worker(i) : i \in 1..MaxPythreads}
Threads == {Main, Other} \cup Workers

\* Holders of a lock file: a thread, nobody, or a lock file found on disk
\* when the Work is constructed (left by an earlier process).
Free == <<"free">>
Stale == <<"stale">>

\* Exit codes the external job script may return.
ExitCodes == {0, 1}
\* num_pythreads values (0 and -1: the threaded branch with an empty range of
\* workers).
Pythreads == -1..MaxPythreads

\* ------------------------------------------------------------------ paths
\* Work.workdir (absolute path of the Work's directory).
WorkDir == "/work"

\* AbinitTask.basename.lockfile and the literal in Work.start.
lockfile == "__lock__"

\* os.path.join(workdir, filename): AbinitTask.path_in_workdir, Work.path_in_workdir.
path_in_workdir(workdir, filename) == workdir \o "/" \o filename

\* A plausible slip in register_input: every task gets the directory task_1.
TaskWorkdirConst(k) == path_in_workdir(WorkDir, "task_" \o ToString(1))

\* task_workdir of the k-th registered input.
TaskWorkdir(k) == path_in_workdir(WorkDir, "task_" \o ToString(k))

WorkLock == path_in_workdir(WorkDir, lockfile)

\* A plausible slip: the task's lock file is created in the Work's directory.
TaskLockInWorkDir(t) == path_in_workdir(WorkDir, lockfile)

TaskLock(t) == path_in_workdir(t.workdir, lockfile)
LockPaths == {WorkLock} \cup {path_in_workdir(TaskWorkdir(k), lockfile) : k \in 1..MaxTasks}

VARIABLES
  tasks,      \* Work._tasks: sequence of task records
  locks,      \* lock path -> holder (Free when the lock file does not exist)
  tr,         \* thread -> frame of its current / last AbinitTask.run call
  st,         \* frame of Work.start on Main
  wr,         \* frame of Work.run on Main
  q,          \* Queue of the threaded branch: task positions still to be taken
  unfinished, \* Queue.unfinished_tasks: put() increments, task_done() decrements
  wk,         \* worker thread -> "none" | "get" | "call" | "dead"
  nlaunch,    \* history: task position -> subprocess launches made for Work.run
  finished,   \* history: task positions whose run(), called by Work.run, returned
  last,       \* the most recent AbinitTask.get_status call: task, evidence, outcome
  wgs,        \* frame of Work.get_status
  cmp,        \* the most recent comparison of two Status objects
  disk,       \* the Work's directory tree on disk
  deps,       \* Work._deps: task id -> the depends registered with it
  obs         \* the most recent call of an operation that only returns or raises

\* What the calls that observe or build a Task read and write.
aux == <<last, wgs, cmp, disk, deps, obs>>

vars == <<tasks, locks, tr, st, wr, q, unfinished, wk, nlaunch, finished, last, wgs, cmp, disk, deps, obs>>

\* ------------------------------------------------------------------ FileLock
\* FileLock.acquire raises FileLock.Exception exactly when the lock is held.
FileLockHeld(path) == locks[path] # Free

\* ------------------------------------------------------------------ frames
\* pc: "idle" | "acquire" | "setup" | "wait" | "release" | "returned" | "raised";
\* ev: the events of the call so far; exc: the exception that left it; rc: the
\* exit code it read; conc (history): another run() on the same task was in
\* progress at some moment of this call.
IdleRun == [pc |-> "idle", task |-> 0, ev |-> <<>>, exc |-> "none", rc |-> 0, conc |-> FALSE]

\* A dict of variable bindings, and the varpaths=None of a task without
\* dependencies.
EmptyDict == [x \in {} |-> ""]
None == [given |-> FALSE, vars |-> EmptyDict]

\* AbinitTask.__init__: the working directory, the bindings added to the input,
\* and no exit code yet.
AbinitTask(workdir, varpaths) ==
  [workdir |-> workdir, varpaths |-> varpaths, has_return_code |-> FALSE, _return_code |-> 0]

NewTask(k) == AbinitTask(TaskWorkdir(k), None)

PrependTask(ts, t) == <<t>> \o ts

\* self._tasks.append(new_task)
AppendTask(ts, t) == Append(ts, t)

\* A plausible slip: the property forgets the stored exit code.
return_codeDefault(t) == 666

\* AbinitTask.return_code: 666 until run() has stored an exit code.
return_code(t) == IF t.has_return_code THEN t._return_code ELSE 666

\* ------------------------------------------------------------------ evidence
\* What Status.__init__ reads of a Task's directory: whether the main output
\* passes the completeness check, whether the output and log files exist,
\* whether parse_ewc finds ERROR messages in each, and the stderr file.
StderrStates == {"absent", "empty", "text"}

Evidence ==
  {e \in [complete : BOOLEAN, output : BOOLEAN, log : BOOLEAN,
          main_errors : BOOLEAN, log_errors : BOOLEAN, stderr : StderrStates] :
     /\ e.complete => e.output
     /\ e.main_errors => e.output
     /\ e.log_errors => e.log}

EmptyDir == [complete |-> FALSE, output |-> FALSE, log |-> FALSE,
             main_errors |-> FALSE, log_errors |-> FALSE, stderr |-> "absent"]

\* No get_status call, no comparison and no Work.get_status call made yet.
NoStatus == [task |-> 0, e |-> EmptyDir, level |-> "none", rc |-> 666]
NoCmp == [made |-> FALSE, a |-> "completed", b |-> "completed",
          lt |-> FALSE, le |-> FALSE, eq |-> FALSE, ne |-> FALSE, gt |-> FALSE, ge |-> FALSE]
IdleGetStatus == [pc |-> "idle", flag |-> FALSE, n |-> 0, list |-> <<>>, result |-> "none"]

\* ------------------------------------------------------------------ directories
\* A task directory: which of workdir, output/ and temporary/ exist, and the
\* content of run.input, run.files and job.sh ("absent" when the file does not
\* exist, "generated" for what build() writes, "foreign" for anything else).
Contents == {"absent", "generated", "foreign"}
Files == {"input_file", "files_file", "jobfile"}

NoDir == [workdir |-> FALSE, outfiles_dir |-> FALSE, tmpfiles_dir |-> FALSE,
          input_file |-> "absent", files_file |-> "absent", jobfile |-> "absent"]

\* The disk: the Work's top directory, the task directories, and (history) the
\* number of build() calls made on each task.
NoDisk == [workdir |-> FALSE, tasks |-> [i \in 1..MaxTasks |-> NoDir],
           nbuild |-> [i \in 1..MaxTasks |-> 0]]

\* No call observed yet.
NoObs == [op |-> "none"]

InitAux ==
  /\ last = NoStatus
  /\ wgs = IdleGetStatus
  /\ cmp = NoCmp
  /\ deps = <<>>
  /\ obs = NoObs

\* The classes of Work followed: Work itself and the predefined workflows
\* that override start (PseudoEcutTest) or run (DeltaTest).
WorkClasses == {"Work", "PseudoEcutTest", "DeltaTest"}

\* The frame of start() on a Work of class cls; idx is the position in the
\* loop over the tasks that PseudoEcutTest.start runs itself.
StartFrame(cls) == [pc |-> "idle", exc |-> "none", cls |-> cls, idx |-> 1]

InitRunOf(cls) ==
  /\ tasks = <<>>
  /\ locks \in [LockPaths -> {Free, Stale}]
  /\ tr = [th \in Threads |-> IdleRun]
  /\ st = StartFrame(cls)
  /\ wr = [pc |-> "idle", n |-> 1, idx |-> 1, exc |-> "none"]
  /\ q = <<>>
  /\ unfinished = 0
  /\ wk = [w \in Workers |-> "none"]
  /\ nlaunch = [i \in 1..MaxTasks |-> 0]
  /\ finished = {}

\* A Work of the base class.
InitRun == InitRunOf("Work")

Init ==
  /\ InitRun
  /\ InitAux
  /\ disk = NoDisk

\* ------------------------------------------------------------------ AbinitTask.run
\* A plausible slip: "except FileLock.Exception: pass" lets run() go on.
AcquireNextPcSwallow(held) == "setup"

\* try: lock.acquire() / except FileLock.Exception: raise / then self.setup(...).
AcquireNextPc(held) == IF held THEN "raised" ELSE "setup"

\* A plausible slip: teardown called whatever the exit code.
AfterCallPcAlways(rc) == "teardown"

\* if self._return_code == 0: self.teardown(...) / lock.release().
AfterCallPc(rc) == IF rc = 0 THEN "teardown" ELSE "release"

\* An exception leaving AbinitTask.run on thread th: nothing in Work.run, in the
\* worker loop or in Work.start catches it.
WrOnRaise(th, exc) == IF th = Main /\ wr.pc = "seq" THEN [wr EXCEPT !.pc = "raised", !.exc = exc] ELSE wr
StOnRaise(th, exc) == IF th = Main /\ st.pc = "run" THEN [st EXCEPT !.pc = "raised", !.exc = exc] ELSE st
WkOnRaise(th) == IF th \in Workers THEN [wk EXCEPT ![th] = "dead"] ELSE wk

RunRaises(th, exc, ev) ==
  /\ tr' = [tr EXCEPT ![th].pc = "raised", ![th].exc = exc, ![th].ev = ev]
  /\ wr' = WrOnRaise(th, exc)
  /\ st' = StOnRaise(th, exc)
  /\ wk' = WkOnRaise(th)

\* The frame of a fresh call task.run() on the task at position i of Work._tasks.
CallRunFrame(i) == [pc |-> "acquire", task |-> i, ev |-> <<>>, exc |-> "none", rc |-> 0, conc |-> FALSE]

\* The run() calls in progress.
InProgress(th) == tr[th].pc \in {"acquire", "setup", "wait", "release"}

\* Thread th calls run() on the task at position i.
CallTaskRun(th, i) ==
  LET peers == {x \in Threads \ {th} : InProgress(x) /\ tr[x].task = i}
  IN [x \in Threads |->
        IF x = th THEN [CallRunFrame(i) EXCEPT !.conc = (peers # {})]
        ELSE IF x \in peers THEN [tr[x] EXCEPT !.conc = TRUE]
        ELSE tr[x]]

\* Histories are kept for the run() calls made by Work.run (on Main or a worker).
CountLaunch(th, i) == IF th = Other THEN nlaunch ELSE [nlaunch EXCEPT ![i] = @ + 1]
NoteFinished(th, i) == IF th = Other THEN finished ELSE finished \cup {i}

\* lock = FileLock(...); try: lock.acquire() except FileLock.Exception: raise
TaskRunAcquire(th) ==
  /\ tr[th].pc = "acquire"
  /\ LET p == TaskLock(tasks[tr[th].task])
         held == FileLockHeld(p)
     IN IF AcquireNextPc(held) = "raised"
        THEN /\ RunRaises(th, "LockError", tr[th].ev)
             /\ UNCHANGED locks
        ELSE /\ locks' = IF held THEN locks ELSE [locks EXCEPT ![p] = th]
             /\ tr' = [tr EXCEPT ![th].pc = "setup",
                                 ![th].ev = IF held THEN @ ELSE Append(@, "acquire")]
             /\ UNCHANGED <<wr, st, wk>>
  /\ UNCHANGED <<tasks, q, unfinished, nlaunch, finished, aux>>

\* self.setup(*args, **kwargs), an overridable hook which may raise; then
\* subprocess.call(...) starts the job script, and raises OSError when the
\* shell cannot be executed.
TaskRunSetupLaunch(th) ==
  /\ tr[th].pc = "setup"
  /\ \E outcome \in {"ok", "SetupError", "OSError"} :
       IF outcome = "ok"
       THEN /\ tr' = [tr EXCEPT ![th].pc = "wait", ![th].ev = @ \o <<"setup", "launch">>]
            /\ nlaunch' = CountLaunch(th, tr[th].task)
            /\ UNCHANGED <<wr, st, wk>>
       ELSE /\ RunRaises(th, outcome, Append(tr[th].ev, "setup"))
            /\ UNCHANGED nlaunch
  /\ UNCHANGED <<tasks, locks, q, unfinished, finished, aux>>

RecordExitOnFreshTask(t, rc) ==
  [AbinitTask(t.workdir, None) EXCEPT !.has_return_code = TRUE, !._return_code = rc]

\* A plausible slip: the exit code is stored only when the job succeeded.
RecordExitOnlySuccess(t, rc) ==
  IF rc = 0 THEN [t EXCEPT !.has_return_code = TRUE, !._return_code = rc] ELSE t

\* A plausible slip: an exit code already recorded is kept.
RecordExitKeepFirst(t, rc) ==
  IF t.has_return_code THEN t ELSE [t EXCEPT !.has_return_code = TRUE, !._return_code = rc]

\* self._return_code = subprocess.call(...): the only attribute run() assigns.
RecordExit(t, rc) == [t EXCEPT !.has_return_code = TRUE, !._return_code = rc]

\* subprocess.call returns when the process exits: self._return_code = <exit
\* code>; if it is 0, self.teardown(*args, **kwargs), a hook which may raise.
TaskRunWait(th) ==
  /\ tr[th].pc = "wait"
  /\ \E rc \in ExitCodes, ok \in BOOLEAN :
       /\ tasks' = [tasks EXCEPT ![tr[th].task] = RecordExit(@, rc)]
       /\ IF AfterCallPc(rc) = "release"
          THEN /\ ok
               /\ tr' = [tr EXCEPT ![th].pc = "release", ![th].rc = rc,
                                   ![th].ev = @ \o <<"exit", "record">>]
               /\ UNCHANGED <<wr, st, wk>>
          ELSE IF ok
          THEN /\ tr' = [tr EXCEPT ![th].pc = "release", ![th].rc = rc,
                                   ![th].ev = @ \o <<"exit", "record", "teardown">>]
               /\ UNCHANGED <<wr, st, wk>>
          ELSE /\ RunRaises(th, "TeardownError", tr[th].ev \o <<"exit", "record", "teardown">>)
  /\ UNCHANGED <<locks, q, unfinished, nlaunch, finished, aux>>

\* lock.release(); return self._return_code
TaskRunRelease(th) ==
  /\ tr[th].pc = "release"
  /\ LET p == TaskLock(tasks[tr[th].task])
     IN locks' = IF locks[p] = th THEN [locks EXCEPT ![p] = Free] ELSE locks
  /\ tr' = [tr EXCEPT ![th].pc = "returned", ![th].ev = Append(@, "release"),
                      ![th].rc = tasks[tr[th].task]._return_code]
  /\ finished' = NoteFinished(th, tr[th].task)
  /\ UNCHANGED <<tasks, st, wr, q, unfinished, wk, nlaunch, aux>>

\* Another thread of the process calls run() on a registered task.
OtherCall(i) ==
  /\ tr[Other].pc = "idle"
  /\ i \in 1..Len(tasks)
  /\ tr' = CallTaskRun(Other, i)
  /\ UNCHANGED <<tasks, locks, st, wr, q, unfinished, wk, nlaunch, finished, aux>>

\* ------------------------------------------------------------------ Work
\* register_input: the new task is appended to Work._tasks.  Main registers its
\* inputs before it starts the Work.
RegisterInput ==
  /\ st.pc = "idle" /\ wr.pc = "idle" /\ wgs.pc # "loop"
  /\ Len(tasks) < MaxTasks
  /\ tasks' = AppendTask(tasks, NewTask(Len(tasks) + 1))
  /\ deps' = Append(deps, <<>>)
  /\ UNCHANGED <<locks, tr, st, wr, q, unfinished, wk, nlaunch, finished, last, wgs, cmp, disk, obs>>

\* A plausible slip: the tasks are walked from the last registered to the first.
SeqPickReversed(idx, n) == n + 1 - idx

\* A plausible slip: the loop keeps running the first task.
SeqPickFirst(idx, n) == 1

\* "for task in self": the idx-th iteration takes the task at position idx.
SeqPick(idx, n) == idx

\* A plausible slip: waiting for the queue to be empty instead of Queue.join().
JoinReadyWhenEmpty == q = <<>>

\* q.join() returns when every item put has been marked with task_done().
JoinReady == unfinished = 0

\* Work.run returns to its caller: Work.start goes on with teardown.
StOnRunReturn == IF st.pc = "run" THEN [st EXCEPT !.pc = "teardown"] ELSE st

\* The caller calls work.run(num_pythreads=n) directly.
CallRun(n) ==
  /\ st.pc = "idle" /\ wr.pc = "idle"
  /\ wr' = [wr EXCEPT !.pc = "enter", !.n = n]
  /\ UNCHANGED <<tasks, locks, tr, st, q, unfinished, wk, nlaunch, finished, aux>>

\* num_pythreads == 1: the sequential loop; otherwise q = Queue() and
\* num_pythreads daemon threads running worker() are started.
WorkRunEnter ==
  /\ wr.pc = "enter"
  /\ IF wr.n = 1
     THEN /\ wr' = [wr EXCEPT !.pc = "seq", !.idx = 1]
          /\ UNCHANGED wk
     ELSE /\ wr' = [wr EXCEPT !.pc = "put", !.idx = 1]
          /\ wk' = [w \in Workers |-> IF \E i \in 1..wr.n : w = Worker(i) THEN "get" ELSE "none"]
  /\ UNCHANGED <<tasks, locks, tr, st, q, unfinished, nlaunch, finished, aux>>

\* for task in self: task.run(*args, **kwargs)   (sequential branch)
WorkRunSeq ==
  /\ wr.pc = "seq"
  /\ tr[Main].pc \in {"idle", "returned"}
  /\ IF wr.idx <= Len(tasks)
     THEN /\ tr' = CallTaskRun(Main, SeqPick(wr.idx, Len(tasks)))
          /\ wr' = [wr EXCEPT !.idx = @ + 1]
          /\ UNCHANGED st
     ELSE /\ wr' = [wr EXCEPT !.pc = "returned"]
          /\ st' = StOnRunReturn
          /\ UNCHANGED tr
  /\ UNCHANGED <<tasks, locks, q, unfinished, wk, nlaunch, finished, aux>>

\* for task in self: q.put((task.run, args, kwargs))   (threaded branch)
WorkRunPut ==
  /\ wr.pc = "put"
  /\ IF wr.idx <= Len(tasks)
     THEN /\ q' = Append(q, wr.idx)
          /\ unfinished' = unfinished + 1
          /\ wr' = [wr EXCEPT !.idx = @ + 1]
     ELSE /\ wr' = [wr EXCEPT !.pc = "join"]
          /\ UNCHANGED <<q, unfinished>>
  /\ UNCHANGED <<tasks, locks, tr, st, wk, nlaunch, finished, aux>>

\* q.join()
WorkRunJoin ==
  /\ wr.pc = "join"
  /\ JoinReady
  /\ wr' = [wr EXCEPT !.pc = "returned"]
  /\ st' = StOnRunReturn
  /\ UNCHANGED <<tasks, locks, tr, q, unfinished, wk, nlaunch, finished, aux>>

\* A plausible slip: a request waits in the queue until the tasks its task
\* depends on have been run.
QueueGetReadyAfterProducers(queue) ==
  /\ queue # <<>>
  /\ \A k \in 1..Len(deps[Head(queue)]) : deps[Head(queue)][k].task \in finished

\* q.get() blocks while the queue is empty.
QueueGetReady(queue) == queue # <<>>

\* A plausible slip: a LifoQueue, which hands out the newest request.
QueueGetItemLast(queue) == queue[Len(queue)]

\* q.get() on a Queue returns the oldest request.
QueueGetItem(queue) == Head(queue)

\* worker(): func, args, kwargs = q.get(); func(*args, **kwargs)
WorkerGet(w) ==
  /\ wk[w] = "get"
  /\ QueueGetReady(q)
  /\ tr' = CallTaskRun(w, QueueGetItem(q))
  /\ q' = Tail(q)
  /\ wk' = [wk EXCEPT ![w] = "call"]
  /\ UNCHANGED <<tasks, locks, st, wr, unfinished, nlaunch, finished, aux>>

\* worker(): func returned; q.task_done() and back to q.get()
WorkerTaskDone(w) ==
  /\ wk[w] = "call"
  /\ tr[w].pc = "returned"
  /\ unfinished' = unfinished - 1
  /\ wk' = [wk EXCEPT ![w] = "get"]
  /\ tr' = [tr EXCEPT ![w] = IdleRun]
  /\ UNCHANGED <<tasks, locks, st, wr, q, nlaunch, finished, aux>>

\* ------------------------------------------------------------------ Work.start
\* try: lock.acquire() / except FileLock.Exception: raise / then self.setup(...).
StartAcquireNextPc(held) == IF held THEN "raised" ELSE "setup"

\* The caller calls work.start(num_pythreads=n).
CallStart(n) ==
  /\ st.pc = "idle" /\ wr.pc = "idle"
  /\ st' = [st EXCEPT !.pc = "acquire"]
  /\ wr' = [wr EXCEPT !.n = n]
  /\ UNCHANGED <<tasks, locks, tr, q, unfinished, wk, nlaunch, finished, aux>>

\* lock = FileLock(self.path_in_workdir("__lock__")); lock.acquire()
StartAcquire ==
  /\ st.pc = "acquire"
  /\ LET held == FileLockHeld(WorkLock)
     IN IF StartAcquireNextPc(held) = "raised"
        THEN /\ st' = [st EXCEPT !.pc = "raised", !.exc = "LockError"]
             /\ UNCHANGED locks
        ELSE /\ locks' = IF held THEN locks ELSE [locks EXCEPT ![WorkLock] = Main]
             /\ st' = [st EXCEPT !.pc = "setup"]
  /\ UNCHANGED <<tasks, tr, wr, q, unfinished, wk, nlaunch, finished, aux>>

\* self.setup(*args, **kwargs), then self.run(*args, **kwargs) is entered.
StartSetup ==
  /\ st.pc = "setup"
  /\ \E ok \in BOOLEAN :
       IF ok
       THEN /\ st' = [st EXCEPT !.pc = "run"]
            /\ wr' = [wr EXCEPT !.pc = "enter"]
       ELSE /\ st' = [st EXCEPT !.pc = "raised", !.exc = "SetupError"]
            /\ UNCHANGED wr
  /\ UNCHANGED <<tasks, locks, tr, q, unfinished, wk, nlaunch, finished, aux>>

\* self.teardown(*args, **kwargs)
StartTeardown ==
  /\ st.pc = "teardown"
  /\ \E ok \in BOOLEAN :
       st' = IF ok THEN [st EXCEPT !.pc = "release"]
                   ELSE [st EXCEPT !.pc = "raised", !.exc = "TeardownError"]
  /\ UNCHANGED <<tasks, locks, tr, wr, q, unfinished, wk, nlaunch, finished, aux>>

\* lock.release()
StartRelease ==
  /\ st.pc = "release"
  /\ locks' = IF locks[WorkLock] = Main THEN [locks EXCEPT ![WorkLock] = Free] ELSE locks
  /\ st' = [st EXCEPT !.pc = "returned"]
  /\ UNCHANGED <<tasks, tr, wr, q, unfinished, wk, nlaunch, finished, aux>>

\* ------------------------------------------------------------------ specification
TaskRunStep(th) ==
  \/ TaskRunAcquire(th)
  \/ TaskRunSetupLaunch(th)
  \/ TaskRunWait(th)
  \/ TaskRunRelease(th)

WorkRunStep == WorkRunEnter \/ WorkRunSeq \/ WorkRunPut \/ WorkRunJoin

StartStep == StartAcquire \/ StartSetup \/ StartTeardown \/ StartRelease

WorkerStep(w) == WorkerGet(w) \/ WorkerTaskDone(w)

Next ==
  \/ RegisterInput
  \/ \E n \in Pythreads : CallRun(n)
  \/ \E n \in Pythreads : CallStart(n)
  \/ \E th \in Threads : TaskRunAcquire(th)
  \/ \E th \in Threads : TaskRunSetupLaunch(th)
  \/ \E th \in Threads : TaskRunWait(th)
  \/ \E th \in Threads : TaskRunRelease(th)
  \/ WorkRunEnter
  \/ WorkRunSeq
  \/ WorkRunPut
  \/ WorkRunJoin
  \/ \E w \in Workers : WorkerGet(w)
  \/ \E w \in Workers : WorkerTaskDone(w)
  \/ StartAcquire
  \/ StartSetup
  \/ StartTeardown
  \/ StartRelease

Spec == Init /\ [][Next]_vars

\* Main runs the Work sequentially (num_pythreads = 1) and Other calls run().
NextConc ==
  \/ RegisterInput
  \/ CallRun(1)
  \/ CallStart(1)
  \/ \E i \in 1..MaxTasks : OtherCall(i)
  \/ \E th \in Threads : TaskRunAcquire(th)
  \/ \E th \in Threads : TaskRunSetupLaunch(th)
  \/ \E th \in Threads : TaskRunWait(th)
  \/ \E th \in Threads : TaskRunRelease(th)
  \/ WorkRunEnter
  \/ WorkRunSeq
  \/ StartAcquire
  \/ StartSetup
  \/ StartTeardown
  \/ StartRelease

SpecConc == Init /\ [][NextConc]_vars

\* Fair scheduling of every thread; every launched external process exits.
FairSpec ==
  /\ Spec
  /\ \A th \in Threads : WF_vars(TaskRunStep(th))
  /\ WF_vars(WorkRunStep)
  /\ WF_vars(StartStep)
  /\ \A w \in Workers : WF_vars(WorkerStep(w))

\* ------------------------------------------------------------------ Status
Levels == {"completed", "unstarted", "running", "error"}

\* AbinitTask.iscomplete: the completeness check of the main output file.
iscomplete(e) == e.complete

BothExistEither(e) == e.output \/ e.log

\* The elif of Status.__init__: the output file and the log file both exist.
BothExist(e) == e.output /\ e.log

\* 'running', turned into 'error' by an ERROR message of either file.
MarkerLevel(e) == IF e.main_errors \/ e.log_errors THEN "error" ELSE "running"

\* open(stderr_file.path, "r") raises IOError when the file does not exist;
\* any line read from it turns the level into 'error'.
StderrLevel(e, level) ==
  CASE e.stderr = "absent" -> "IOError"
    [] e.stderr = "text" -> "error"
    [] e.stderr = "empty" -> level

StatusBranchFirst(e) ==
  IF BothExist(e) THEN StderrLevel(e, MarkerLevel(e))
  ELSE IF iscomplete(e) THEN "completed"
  ELSE "unstarted"

\* A plausible slip: a recorded non-zero exit code of a task of the Work makes
\* the level 'error'.
StatusByExitCode(e) ==
  IF \E i \in 1..Len(tasks) : tasks[i].has_return_code /\ tasks[i]._return_code # 0
  THEN "error"
  ELSE IF iscomplete(e) THEN "completed"
  ELSE IF BothExist(e) THEN StderrLevel(e, MarkerLevel(e))
  ELSE "unstarted"

\* Status.__init__: the level of the new Status, or the exception that leaves
\* the constructor. Nothing of the Task but its file paths is read.
Status(e) ==
  IF iscomplete(e) THEN "completed"
  ELSE IF BothExist(e) THEN StderrLevel(e, MarkerLevel(e))
  ELSE "unstarted"

\* AbinitTask.get_status on task i, called by Main between its other calls,
\* the directory holding the evidence e; rc (history) is the task's return_code
\* at the call.
GetStatus(i) ==
  /\ i \in 1..Len(tasks)
  /\ wr.pc \in {"idle", "returned", "raised"}
  /\ \E e \in Evidence :
       last' = [task |-> i, e |-> e, level |-> Status(e), rc |-> return_code(tasks[i])]
  /\ UNCHANGED <<tasks, locks, tr, st, wr, q, unfinished, wk, nlaunch, finished, deps, obs, wgs, cmp, disk>>

\* No lock file is left over from an earlier process.
InitStatus ==
  /\ Init
  /\ \A p \in LockPaths : locks[p] = Free

\* Main runs the Work sequentially and asks for the status of its tasks.
NextStatus ==
  \/ RegisterInput
  \/ CallRun(1)
  \/ \E th \in Threads : TaskRunAcquire(th)
  \/ \E th \in Threads : TaskRunSetupLaunch(th)
  \/ \E th \in Threads : TaskRunWait(th)
  \/ \E th \in Threads : TaskRunRelease(th)
  \/ WorkRunEnter
  \/ WorkRunSeq
  \/ \E i \in 1..MaxTasks : GetStatus(i)

SpecStatus == InitStatus /\ [][NextStatus]_vars

\* ------------------------------------------------------------------ Status ranks
S_OK == 1
S_WAIT == 2
S_RUN == 4
S_ERR == 8

level2rankSwapped(level) ==
  CASE level = "completed" -> S_OK
    [] level = "unstarted" -> S_RUN
    [] level = "running" -> S_WAIT
    [] level = "error" -> S_ERR

\* Status._level2rank
level2rank(level) ==
  CASE level = "completed" -> S_OK
    [] level = "unstarted" -> S_WAIT
    [] level = "running" -> S_RUN
    [] level = "error" -> S_ERR

\* Status.rank and the rich comparisons __lt__, __le__, __eq__, __ne__, __gt__,
\* __ge__ of two Status objects, given by their levels.
rank(level) == level2rank(level)
lt(a, b) == rank(a) < rank(b)
le(a, b) == rank(a) <= rank(b)
eq(a, b) == rank(a) = rank(b)
ne(a, b) == ~eq(a, b)
gt(a, b) == rank(a) > rank(b)
ge(a, b) == rank(a) >= rank(b)

\* Two Status objects are compared with each of the six operators.
CompareStatus ==
  /\ \E a \in Levels, b \in Levels :
       cmp' = [made |-> TRUE, a |-> a, b |-> b,
               lt |-> lt(a, b), le |-> le(a, b), eq |-> eq(a, b),
               ne |-> ne(a, b), gt |-> gt(a, b), ge |-> ge(a, b)]
  /\ UNCHANGED <<tasks, locks, tr, st, wr, q, unfinished, wk, nlaunch, finished, deps, obs, last, wgs, disk>>

\* ------------------------------------------------------------------ Work.get_status
\* max(status_list): the first item is kept until a later one compares greater.
RECURSIVE MaxFrom(_, _, _)
MaxFrom(list, k, best) ==
  IF k > Len(list) THEN best
  ELSE MaxFrom(list, k + 1, IF gt(list[k].level, best.level) THEN list[k] ELSE best)

maxFirst(list) == list[1]

max(list) == MaxFrom(list, 2, list[1])

\* Work.get_status(only_highest_rank=flag) is called.
WorkGetStatusCall(flag) ==
  /\ wgs.pc # "loop"
  /\ wr.pc \in {"idle", "returned", "raised"}
  /\ wgs' = [pc |-> "loop", flag |-> flag, n |-> Len(tasks), list |-> <<>>, result |-> "none"]
  /\ UNCHANGED <<tasks, locks, tr, st, wr, q, unfinished, wk, nlaunch, finished, deps, obs, last, cmp, disk>>

\* [task.get_status() for task in self]: the status of the next task is
\* appended; an exception of its constructor leaves Work.get_status.
WorkGetStatusTask ==
  /\ wgs.pc = "loop"
  /\ Len(wgs.list) < wgs.n
  /\ \E e \in Evidence :
       IF Status(e) \in Levels
       THEN wgs' = [wgs EXCEPT !.list = Append(@, [task |-> Len(@) + 1, level |-> Status(e)])]
       ELSE wgs' = [wgs EXCEPT !.pc = "raised", !.result = Status(e)]
  /\ UNCHANGED <<tasks, locks, tr, st, wr, q, unfinished, wk, nlaunch, finished, deps, obs, last, cmp, disk>>

\* if only_highest_rank: return max(status_list) (ValueError on an empty
\* list) / else: return status_list
WorkGetStatusReturn ==
  /\ wgs.pc = "loop"
  /\ Len(wgs.list) = wgs.n
  /\ wgs' = IF ~wgs.flag THEN [wgs EXCEPT !.pc = "returned", !.result = "list"]
            ELSE IF wgs.list = <<>> THEN [wgs EXCEPT !.pc = "raised", !.result = "ValueError"]
            ELSE [wgs EXCEPT !.pc = "returned", !.result = max(wgs.list).level]
  /\ UNCHANGED <<tasks, locks, tr, st, wr, q, unfinished, wk, nlaunch, finished, deps, obs, last, cmp, disk>>

\* Main registers tasks, asks the Work for its status and compares statuses.
NextWorkStatus ==
  \/ RegisterInput
  \/ \E flag \in BOOLEAN : WorkGetStatusCall(flag)
  \/ WorkGetStatusTask
  \/ WorkGetStatusReturn
  \/ CompareStatus

SpecWorkStatus == InitStatus /\ [][NextWorkStatus]_vars

\* ------------------------------------------------------------------ build
\* What may lie in a task directory before the program first builds it: any of
\* the directories, and files written by something else.
OldDirs ==
  {d \in [workdir : BOOLEAN, outfiles_dir : BOOLEAN, tmpfiles_dir : BOOLEAN,
          input_file : {"absent", "foreign"}, files_file : {"absent", "foreign"},
          jobfile : {"absent", "foreign"}] :
     ~d.workdir => d = NoDir}

OldDisks ==
  {[workdir |-> \E i \in 1..MaxOldDirs : f[i].workdir,
    tasks |-> [i \in 1..MaxTasks |-> IF i <= MaxOldDirs THEN f[i] ELSE NoDir],
    nbuild |-> [i \in 1..MaxTasks |-> 0]] : f \in [1..MaxOldDirs -> OldDirs]}

\* if not os.path.exists(path): os.makedirs(path)
MakeDirs(exists) == IF ~exists THEN TRUE ELSE exists

WriteAlways(content) == "generated"

\* if not file.exists: file.write(...)
WriteIfAbsent(content) == IF content = "absent" THEN "generated" ELSE content

\* AbinitTask.build on the directory d.
BuildDir(d) ==
  [workdir |-> MakeDirs(d.workdir),
   outfiles_dir |-> MakeDirs(d.outfiles_dir),
   tmpfiles_dir |-> MakeDirs(d.tmpfiles_dir),
   input_file |-> WriteIfAbsent(d.input_file),
   files_file |-> WriteIfAbsent(d.files_file),
   jobfile |-> WriteIfAbsent(d.jobfile)]

\* task.build() on the task at position i; os.makedirs also creates the
\* missing parent, the Work's directory.
TaskBuild(i) ==
  /\ i \in 1..Len(tasks)
  /\ disk.nbuild[i] < MaxBuilds
  /\ disk' = [workdir |-> TRUE,
              tasks |-> [disk.tasks EXCEPT ![i] = BuildDir(@)],
              nbuild |-> [disk.nbuild EXCEPT ![i] = @ + 1]]
  /\ UNCHANGED <<tasks, locks, tr, st, wr, q, unfinished, wk, nlaunch, finished, deps, obs, last, wgs, cmp>>

\* Work.build: the top directory, then task.build() for every task in order.
WorkBuild ==
  /\ \A i \in 1..Len(tasks) : disk.nbuild[i] < MaxBuilds
  /\ disk' = [workdir |-> MakeDirs(disk.workdir),
              tasks |-> [i \in 1..MaxTasks |->
                           IF i <= Len(tasks) THEN BuildDir(disk.tasks[i]) ELSE disk.tasks[i]],
              nbuild |-> [i \in 1..MaxTasks |->
                            IF i <= Len(tasks) THEN disk.nbuild[i] + 1 ELSE disk.nbuild[i]]]
  /\ UNCHANGED <<tasks, locks, tr, st, wr, q, unfinished, wk, nlaunch, finished, deps, obs, last, wgs, cmp>>

\* Some task directories exist before the Work is set up.
InitBuild ==
  /\ InitRun
  /\ \A p \in LockPaths : locks[p] = Free
  /\ InitAux
  /\ disk \in OldDisks

\* Main registers tasks and builds them, one at a time or all at once.
NextBuild ==
  \/ RegisterInput
  \/ \E i \in 1..MaxTasks : TaskBuild(i)
  \/ WorkBuild

SpecBuild == InitBuild /\ [][NextBuild]_vars

\* ------------------------------------------------------------------ TaskDependencies
\* The tags a client may request: the four of the table and one outside it.
Exts == {"DEN", "WFK", "SCR", "QPS", "XYZ"}

ext2getvarsSwapped ==
  [ext \in {"DEN", "WFK", "SCR", "QPS"} |->
     CASE ext = "DEN" -> "getwfk_path"
       [] ext = "WFK" -> "getden_path"
       [] ext = "SCR" -> "getscr_path"
       [] ext = "QPS" -> "getqps_path"]

\* TaskDependencies._ext2getvars
ext2getvars ==
  [ext \in {"DEN", "WFK", "SCR", "QPS"} |->
     CASE ext = "DEN" -> "getden_path"
       [] ext = "WFK" -> "getwfk_path"
       [] ext = "SCR" -> "getscr_path"
       [] ext = "QPS" -> "getqps_path"]

\* AbinitTask.prefix.odata
odata == "output/out"

odata_path_from_extVerbatim(t, ext) == path_in_workdir(t.workdir, odata \o ext)

\* AbinitTask.odata_path_from_ext
odata_path_from_ext(t, ext) ==
  path_in_workdir(t.workdir, odata \o (IF SubSeq(ext, 1, 1) # "_" THEN "_" \o ext ELSE ext))

\* TaskDependencies.__init__; task is the position of the producing Task.
TaskDependencies(task, task_id, odata_required) ==
  [task |-> task, task_id |-> task_id,
   odata_required |-> IF odata_required # <<>> THEN odata_required ELSE <<>>]

with_odataMerged(d, tags) == TaskDependencies(d.task, d.task_id, d.odata_required \o tags)

\* TaskDependencies.with_odata: the descriptor it returns.
with_odata(d, tags) == TaskDependencies(d.task, d.task_id, tags)

\* dict.update: the bindings of g replace those of f.
Update(f, g) ==
  [x \in DOMAIN f \cup DOMAIN g |-> IF x \in DOMAIN g THEN g[x] ELSE f[x]]

\* TaskDependencies.get_varpaths: the loop over odata_required from position k
\* on; a tag outside the table raises KeyError.
RECURSIVE VarpathsFrom(_, _, _)
VarpathsFrom(d, k, vs) ==
  IF k > Len(d.odata_required) THEN [exc |-> "none", vars |-> vs]
  ELSE LET ext == d.odata_required[k]
       IN IF ext \notin DOMAIN ext2getvars THEN [exc |-> "KeyError", vars |-> EmptyDict]
          ELSE VarpathsFrom(d, k + 1,
                 Update(vs, [x \in {ext2getvars[ext]} |-> odata_path_from_ext(tasks[d.task], ext)]))

get_varpathsFirstOnly(d) ==
  VarpathsFrom([d EXCEPT !.odata_required = IF @ = <<>> THEN @ ELSE <<Head(@)>>], 1, EmptyDict)

\* A plausible slip: a tag outside the table is skipped.
get_varpathsKnownOnly(d) ==
  VarpathsFrom([d EXCEPT !.odata_required = SelectSeq(@, LAMBDA x : x \in DOMAIN ext2getvars)],
               1, EmptyDict)

get_varpaths(d) == VarpathsFrom(d, 1, EmptyDict)

\* ------------------------------------------------------------------ Work.register_input
\* The tag of a descriptor passed as a dependency: one of the table, or unknown.
DepTags == {"DEN", "WFK", "SCR", "XYZ"}

\* The depends arguments of a registration when n tasks exist: up to m
\* descriptors, each of an existing task with one requested tag.
DependsChoices(n, m) ==
  UNION {[1..len -> {TaskDependencies(j, j, <<tag>>) : j \in 1..n, tag \in DepTags}] :
           len \in 0..m}

\* for dep in depends: varpaths.update(dep.get_varpaths()), from position i
\* on; the exception of a get_varpaths call leaves register_input.
RECURSIVE DependsVarpaths(_, _, _)
DependsVarpaths(depends, i, vs) ==
  IF i > Len(depends) THEN [exc |-> "none", vars |-> vs]
  ELSE LET r == get_varpaths(depends[i])
       IN IF r.exc # "none" THEN [exc |-> r.exc, vars |-> EmptyDict]
          ELSE DependsVarpaths(depends, i + 1, Update(vs, r.vars))

UnionVarpathsFirstWins(depends) ==
  LET r == DependsVarpaths(depends, 1, EmptyDict)
      first == get_varpaths(depends[1])
  IN [r EXCEPT !.vars = IF r.exc = "none" THEN Update(@, first.vars) ELSE @]

\* varpaths = None / if depends: varpaths = {} and the loop over depends.
UnionVarpaths(depends) == DependsVarpaths(depends, 1, EmptyDict)

\* Work.register_input(input, depends): the bindings are resolved, the Task is
\* constructed (the constructor copies the input and may raise), appended to
\* _tasks, depends is stored under the new task id, and a descriptor of the
\* new task is returned.
RegisterDepends(depends) ==
  /\ st.pc = "idle" /\ wr.pc = "idle" /\ wgs.pc # "loop"
  /\ Len(tasks) < MaxTasks
  /\ LET task_workdir == TaskWorkdir(Len(tasks) + 1)
         r == IF depends # <<>> THEN UnionVarpaths(depends) ELSE [exc |-> "none", vars |-> EmptyDict]
         varpaths == IF depends # <<>> THEN [given |-> TRUE, vars |-> r.vars] ELSE None
         newtask_id == Len(tasks) + 1
     IN IF r.exc # "none"
        THEN /\ obs' = [op |-> "register_input", depends |-> depends, exc |-> r.exc]
             /\ UNCHANGED <<tasks, deps>>
        ELSE \E ok \in BOOLEAN :
               IF ok
               THEN /\ tasks' = AppendTask(tasks, AbinitTask(task_workdir, varpaths))
                    /\ deps' = Append(deps, depends)
                    /\ obs' = [op |-> "register_input", depends |-> depends, exc |-> "none",
                               out |-> TaskDependencies(newtask_id, newtask_id, <<>>)]
               ELSE /\ obs' = [op |-> "register_input", depends |-> depends, exc |-> "Error"]
                    /\ UNCHANGED <<tasks, deps>>
  /\ UNCHANGED <<locks, tr, st, wr, q, unfinished, wk, nlaunch, finished, last, wgs, cmp, disk>>

\* A registration with dependencies follows registrations without them.
FirstDepends(depends) ==
  depends # <<>> =>
    /\ \A k \in 1..Len(deps) : deps[k] = <<>>
    /\ ~(obs.op = "register_input" /\ obs.depends # <<>>)

DepsRegister ==
  \E depends \in DependsChoices(Len(tasks), MaxDeps) :
    FirstDepends(depends) /\ RegisterDepends(depends)

\* Main registers inputs, one of them with up to MaxDeps dependencies.
NextDeps ==
  \/ DepsRegister

SpecDeps == InitStatus /\ [][NextDeps]_vars

\* ------------------------------------------------------------------ calls that return or raise
\* These calls change nothing but what they return, so a behaviour follows one
\* of them: the first made after the registrations.
FirstCall == obs = NoObs

\* The tag lists a client passes to with_odata.
TagLists == UNION {[1..n -> Exts] : n \in 0..MaxTags}

\* d.with_odata(*tags) on a descriptor d of task j: self is d as the call
\* leaves it (the method assigns nothing to self), out the descriptor returned.
WithOdata ==
  /\ FirstCall
  /\ \E j \in 1..Len(tasks), old \in TagLists, tags \in TagLists :
       LET d == TaskDependencies(j, j, old)
       IN obs' = [op |-> "with_odata", d |-> d, tags |-> tags, self |-> d,
                  out |-> with_odata(d, tags)]
  /\ UNCHANGED <<tasks, locks, tr, st, wr, q, unfinished, wk, nlaunch, finished, last, wgs, cmp, disk, deps>>

\* d.get_varpaths() on a descriptor d of task j.
GetVarpaths ==
  /\ FirstCall
  /\ \E j \in 1..Len(tasks), tags \in TagLists :
       LET d == TaskDependencies(j, j, tags)
       IN obs' = [op |-> "get_varpaths", d |-> d, out |-> get_varpaths(d)]
  /\ UNCHANGED <<tasks, locks, tr, st, wr, q, unfinished, wk, nlaunch, finished, last, wgs, cmp, disk, deps>>

\* The extensions passed to odata_path_from_ext.
PathExts == {"GSR", "_GSR", "DEN", "_DEN"}

\* task.odata_path_from_ext(ext) on the task at position j.
OdataPathFromExt ==
  /\ FirstCall
  /\ \E j \in 1..Len(tasks), ext \in PathExts :
       obs' = [op |-> "odata_path_from_ext", task |-> j, ext |-> ext,
               out |-> odata_path_from_ext(tasks[j], ext)]
  /\ UNCHANGED <<tasks, locks, tr, st, wr, q, unfinished, wk, nlaunch, finished, last, wgs, cmp, disk, deps>>

\* The operations whose body starts with a raise statement.
UnsupportedOps == {"AbinitTask.to_dict", "AbinitTask.from_dict", "AbinitTask.get_runhints",
                   "Work.to_dict", "Work.from_dict"}

\* The exception of each: AbinitTask.to_dict and from_dict name the class
\* NotimplementedError, which is not defined, so the raise statement itself
\* fails with NameError.
UnsupportedRaises(op) ==
  IF op \in {"AbinitTask.to_dict", "AbinitTask.from_dict"} THEN "NameError"
  ELSE "NotImplementedError"

\* One of them is called (on the first task, for those of AbinitTask).
Unsupported ==
  /\ FirstCall
  /\ Len(tasks) >= 1
  /\ \E op \in UnsupportedOps :
       obs' = [op |-> op, returned |-> FALSE, exc |-> UnsupportedRaises(op)]
  /\ UNCHANGED <<tasks, locks, tr, st, wr, q, unfinished, wk, nlaunch, finished, last, wgs, cmp, disk, deps>>

\* ------------------------------------------------------------------ Work.get_etotal
\* The GSR file of a task: missing, corrupt, or holding a total energy.
Energies == {"-1.5", "-2.5"}
Artifacts == {"missing", "corrupt"} \cup Energies

\* GSR_Reader(gsr_path) / ncdata.get_value("etotal") raises on a file that is
\* missing or cannot be parsed.
GSRRaises(a) == a \in {"missing", "corrupt"}

EtotalEntryRaw(a) == a

\* try: etotal.append(<value read>) / except: etotal.append(np.inf)
EtotalEntry(a) == IF GSRRaises(a) THEN "inf" ELSE a

\* The loop of get_etotal over the tasks from position k on.
RECURSIVE EtotalFrom(_, _, _)
EtotalFrom(art, k, etotal) ==
  IF k > Len(art) THEN etotal
  ELSE EtotalFrom(art, k + 1, Append(etotal, EtotalEntry(art[k])))

\* Work.get_etotal, the tasks' GSR files being art.
GetEtotal ==
  /\ FirstCall
  /\ \E art \in [1..Len(tasks) -> Artifacts] :
       obs' = [op |-> "get_etotal", art |-> art, out |-> EtotalFrom(art, 1, <<>>)]
  /\ UNCHANGED <<tasks, locks, tr, st, wr, q, unfinished, wk, nlaunch, finished, last, wgs, cmp, disk, deps>>

\* Main registers inputs without dependencies and makes these calls.
NextCalls ==
  \/ RegisterInput
  \/ WithOdata
  \/ GetVarpaths
  \/ OdataPathFromExt
  \/ Unsupported
  \/ GetEtotal

SpecCalls == InitStatus /\ [][NextCalls]_vars

\* ------------------------------------------------------------------ life of a Work
\* The inputs of the calls followed through the life of a Work: a registration
\* has no dependency or (one of them) one that requests DEN, a task directory is empty or
\* holds a complete output, a task is built once, and the first get_status
\* call is the one observed.
LifeDepends(n) == {<<>>} \cup {<<TaskDependencies(j, j, <<"DEN">>)>> : j \in 1..n}
LifeEvidence == {EmptyDir, [EmptyDir EXCEPT !.output = TRUE, !.complete = TRUE]}

LifeRegister ==
  \E depends \in LifeDepends(Len(tasks)) : FirstDepends(depends) /\ RegisterDepends(depends)
LifeTaskBuild(i) == disk.nbuild[i] = 0 /\ TaskBuild(i)
LifeWorkBuild == (\A i \in 1..MaxTasks : disk.nbuild[i] = 0) /\ WorkBuild
LifeGetStatus(i) == last = NoStatus /\ GetStatus(i) /\ last'.e \in LifeEvidence

\* Main registers inputs, builds tasks, runs or starts the Work sequentially
\* and asks a task for its status.
NextLife ==
  \/ LifeRegister
  \/ \E i \in 1..MaxTasks : LifeTaskBuild(i)
  \/ LifeWorkBuild
  \/ CallRun(1)
  \/ CallStart(1)
  \/ \E th \in Threads : TaskRunAcquire(th)
  \/ \E th \in Threads : TaskRunSetupLaunch(th)
  \/ \E th \in Threads : TaskRunWait(th)
  \/ \E th \in Threads : TaskRunRelease(th)
  \/ WorkRunEnter
  \/ WorkRunSeq
  \/ StartAcquire
  \/ StartSetup
  \/ StartTeardown
  \/ StartRelease
  \/ \E i \in 1..MaxTasks : LifeGetStatus(i)

SpecLife == InitStatus /\ [][NextLife]_vars

\* ------------------------------------------------------------------ start() of the predefined workflows
\* work.start() is called on a Work of any class: Work.start and
\* DeltaTest (which inherits it) begin with the lock, PseudoEcutTest.start
\* begins with self.setup.
ClassCallStart ==
  /\ st.pc = "idle" /\ wr.pc = "idle"
  /\ IF st.cls = "PseudoEcutTest"
     THEN /\ st' = [st EXCEPT !.pc = "setup", !.idx = 1]
          /\ UNCHANGED <<tasks, locks, tr, wr, q, unfinished, wk, nlaunch, finished, aux>>
     ELSE CallStart(1)

\* Work.start: self.setup(...) then self.run(...).
WorkStartSetup == st.cls # "PseudoEcutTest" /\ StartSetup

\* Work.run, entered by Work.start on a class that does not override run.
WorkRunBody == st.cls # "DeltaTest" /\ WorkRunEnter

\* DeltaTest.run: pass.
DeltaTestRun ==
  /\ st.cls = "DeltaTest"
  /\ wr.pc = "enter"
  /\ wr' = [wr EXCEPT !.pc = "returned"]
  /\ st' = StOnRunReturn
  /\ UNCHANGED <<tasks, locks, tr, q, unfinished, wk, nlaunch, finished, aux>>

\* Work.start: self.teardown(...) then lock.release().
WorkStartTeardown == st.cls # "PseudoEcutTest" /\ StartTeardown

\* PseudoEcutTest.start: self.setup(*args, **kwargs)
PseudoStartSetup ==
  /\ st.cls = "PseudoEcutTest"
  /\ st.pc = "setup"
  /\ \E ok \in BOOLEAN :
       st' = IF ok THEN [st EXCEPT !.pc = "run"]
                   ELSE [st EXCEPT !.pc = "raised", !.exc = "SetupError"]
  /\ UNCHANGED <<tasks, locks, tr, wr, q, unfinished, wk, nlaunch, finished, aux>>

\* PseudoEcutTest.start: for task in self: task.run(*args, **kwargs)
PseudoStartLoop ==
  /\ st.cls = "PseudoEcutTest"
  /\ st.pc = "run"
  /\ tr[Main].pc \in {"idle", "returned"}
  /\ IF st.idx <= Len(tasks)
     THEN /\ tr' = CallTaskRun(Main, st.idx)
          /\ st' = [st EXCEPT !.idx = @ + 1]
     ELSE /\ st' = [st EXCEPT !.pc = "teardown"]
          /\ UNCHANGED tr
  /\ UNCHANGED <<tasks, locks, wr, q, unfinished, wk, nlaunch, finished, aux>>

\* PseudoEcutTest.start: self.teardown(*args, **kwargs), which raises
\* NotImplementedError for a PAW pseudopotential; then the method returns.
PseudoStartTeardown ==
  /\ st.cls = "PseudoEcutTest"
  /\ st.pc = "teardown"
  /\ \E ok \in BOOLEAN :
       st' = IF ok THEN [st EXCEPT !.pc = "returned"]
                   ELSE [st EXCEPT !.pc = "raised", !.exc = "TeardownError"]
  /\ UNCHANGED <<tasks, locks, tr, wr, q, unfinished, wk, nlaunch, finished, aux>>

\* The first start() is between its first statement and its return.
StartInProgress == st.pc \in {"setup", "run", "teardown", "release"}

\* A second start() on the same Work, called by Other while the first is in
\* progress.  Work.start raises at lock.acquire(); PseudoEcutTest.start goes
\* on with its setup hook.  obs is the frame of this call.
SecondStart ==
  /\ FirstCall
  /\ StartInProgress
  /\ IF st.cls = "PseudoEcutTest"
     THEN obs' = [op |-> "start", pc |-> "setup", exc |-> "none", idx |-> 1, ev |-> <<>>]
     ELSE /\ StartAcquireNextPc(FileLockHeld(WorkLock)) = "raised"
          /\ obs' = [op |-> "start", pc |-> "raised", exc |-> "LockError", idx |-> 1, ev |-> <<>>]
  /\ UNCHANGED <<tasks, locks, tr, st, wr, q, unfinished, wk, nlaunch, finished, last, wgs, cmp, disk, deps>>

\* PseudoEcutTest.start on Other: self.setup(*args, **kwargs)
SecondStartSetup ==
  /\ obs.op = "start" /\ obs.pc = "setup"
  /\ \E ok \in BOOLEAN :
       obs' = IF ok THEN [obs EXCEPT !.pc = "run", !.ev = Append(@, "setup")]
              ELSE [obs EXCEPT !.pc = "raised", !.exc = "SetupError", !.ev = Append(@, "setup")]
  /\ UNCHANGED <<tasks, locks, tr, st, wr, q, unfinished, wk, nlaunch, finished, last, wgs, cmp, disk, deps>>

\* PseudoEcutTest.start on Other: for task in self: task.run(...); an
\* exception of task.run leaves start.
SecondStartLoop ==
  /\ obs.op = "start" /\ obs.pc = "run"
  /\ tr[Other].pc \in {"idle", "returned", "raised"}
  /\ IF tr[Other].pc = "raised"
     THEN /\ obs' = [obs EXCEPT !.pc = "raised", !.exc = tr[Other].exc]
          /\ UNCHANGED tr
     ELSE IF obs.idx <= Len(tasks)
     THEN /\ tr' = CallTaskRun(Other, obs.idx)
          /\ obs' = [obs EXCEPT !.idx = @ + 1, !.ev = Append(@, "run")]
     ELSE /\ obs' = [obs EXCEPT !.pc = "teardown"]
          /\ UNCHANGED tr
  /\ UNCHANGED <<tasks, locks, st, wr, q, unfinished, wk, nlaunch, finished, last, wgs, cmp, disk, deps>>

\* PseudoEcutTest.start on Other: self.teardown(*args, **kwargs)
SecondStartTeardown ==
  /\ obs.op = "start" /\ obs.pc = "teardown"
  /\ \E ok \in BOOLEAN :
       obs' = IF ok THEN [obs EXCEPT !.pc = "returned", !.ev = Append(@, "teardown")]
              ELSE [obs EXCEPT !.pc = "raised", !.exc = "TeardownError", !.ev = Append(@, "teardown")]
  /\ UNCHANGED <<tasks, locks, tr, st, wr, q, unfinished, wk, nlaunch, finished, last, wgs, cmp, disk, deps>>

\* A Work of any of the classes, no lock file left over.
InitStart ==
  /\ \E cls \in WorkClasses : InitRunOf(cls)
  /\ \A p \in LockPaths : locks[p] = Free
  /\ InitAux
  /\ disk = NoDisk

\* Main registers inputs and starts the Work; Other starts it a second time.
NextStart ==
  \/ RegisterInput
  \/ ClassCallStart
  \/ StartAcquire
  \/ WorkStartSetup
  \/ WorkRunBody
  \/ DeltaTestRun
  \/ WorkRunSeq
  \/ WorkStartTeardown
  \/ StartRelease
  \/ PseudoStartSetup
  \/ PseudoStartLoop
  \/ PseudoStartTeardown
  \/ \E th \in Threads : TaskRunAcquire(th)
  \/ \E th \in Threads : TaskRunSetupLaunch(th)
  \/ \E th \in Threads : TaskRunWait(th)
  \/ \E th \in Threads : TaskRunRelease(th)
  \/ SecondStart
  \/ SecondStartSetup
  \/ SecondStartLoop
  \/ SecondStartTeardown

SpecStart == InitStart /\ [][NextStart]_vars

\* ------------------------------------------------------------------ running a Work with dependencies
\* Main registers inputs, one of them with a dependency on the task
\* registered just before it (the registrations followed are those that
\* succeed), and runs the Work sequentially or with worker threads.
InertDepends(n) == {<<>>} \cup {<<TaskDependencies(j, j, <<"DEN">>)>> : j \in {n} \ {0}}

InertRegister ==
  \E depends \in InertDepends(Len(tasks)) :
    FirstDepends(depends) /\ RegisterDepends(depends) /\ obs'.exc = "none"

NextInert ==
  \/ InertRegister
  \/ \E n \in {1, MaxPythreads} : CallRun(n)
  \/ \E th \in Threads : TaskRunAcquire(th)
  \/ \E th \in Threads : TaskRunSetupLaunch(th)
  \/ \E th \in Threads : TaskRunWait(th)
  \/ \E th \in Threads : TaskRunRelease(th)
  \/ WorkRunEnter
  \/ WorkRunSeq
  \/ WorkRunPut
  \/ WorkRunJoin
  \/ \E w \in Workers : WorkerGet(w)
  \/ \E w \in Workers : WorkerTaskDone(w)

SpecInert == InitStatus /\ [][NextInert]_vars

\* ------------------------------------------------------------------ two get_status calls
\* The directories the two calls find: empty, a complete output, output and
\* log without and with stderr text, and output and log without a stderr file.
PureEvidence ==
  {EmptyDir,
   [EmptyDir EXCEPT !.output = TRUE, !.complete = TRUE],
   [EmptyDir EXCEPT !.output = TRUE, !.log = TRUE, !.stderr = "empty"],
   [EmptyDir EXCEPT !.output = TRUE, !.log = TRUE, !.stderr = "text"],
   [EmptyDir EXCEPT !.output = TRUE, !.log = TRUE]}

\* AbinitTask.get_status on task i, the first or the second call observed;
\* rc and locked (history) are the task's return_code and whether its lock
\* file exists at the call.
ObservedGetStatus(i) ==
  /\ i \in 1..Len(tasks)
  /\ wr.pc \in {"idle", "returned", "raised"}
  /\ obs = NoObs \/ (obs.op = "get_status" /\ Len(obs.calls) < 2)
  /\ \E e \in PureEvidence :
       obs' = [op |-> "get_status",
               calls |-> Append(IF obs = NoObs THEN <<>> ELSE obs.calls,
                                [task |-> i, e |-> e, level |-> Status(e),
                                 rc |-> return_code(tasks[i]),
                                 locked |-> FileLockHeld(TaskLock(tasks[i]))])]
  /\ UNCHANGED <<tasks, locks, tr, st, wr, q, unfinished, wk, nlaunch, finished, last, wgs, cmp, disk, deps>>

\* Main runs the Work sequentially and asks twice for the status of a task.
NextPure ==
  \/ RegisterInput
  \/ CallRun(1)
  \/ \E th \in Threads : TaskRunAcquire(th)
  \/ \E th \in Threads : TaskRunSetupLaunch(th)
  \/ \E th \in Threads : TaskRunWait(th)
  \/ \E th \in Threads : TaskRunRelease(th)
  \/ WorkRunEnter
  \/ WorkRunSeq
  \/ \E i \in 1..MaxTasks : ObservedGetStatus(i)

SpecPure == InitStatus /\ [][NextPure]_vars

\* ================================================================== claims
Ended(th) == tr[th].pc \in {"returned", "raised"}
Holding(th) == tr[th].pc \in {"setup", "wait", "release"}
WorkThreads == {Main} \cup Workers
TaskPositions == 1..Len(tasks)
NoStaleTaskLock == \A i \in TaskPositions : locks[TaskLock(tasks[i])] # Stale

\* The events of a run() call that acquired the lock, up to the recorded exit
\* code rc, in the order of the claim.
EventsUpToRecord == <<"acquire", "setup", "launch", "exit", "record">>
FullEvents(rc) ==
  EventsUpToRecord \o (IF rc = 0 THEN <<"teardown">> ELSE <<>>) \o <<"release">>
IsPrefix(a, b) == Len(a) <= Len(b) /\ SubSeq(b, 1, Len(a)) = a
Occurs(e, seq) == \E k \in 1..Len(seq) : seq[k] = e

\* C1: once a call of AbinitTask.run that acquired the task's lock has ended
\* (returned or raised), that call no longer holds the lock.
C1_TaskLockReleasedOnEveryExit ==
  \A th \in Threads :
    Ended(th) => locks[TaskLock(tasks[tr[th].task])] # th

\* C2: once a call of Work.start that acquired the Work-level lock has ended
\* (returned or raised), it no longer holds the lock.
C2_WorkLockReleasedOnEveryExit ==
  st.pc \in {"returned", "raised"} => locks[WorkLock] # Main

\* C3 (as stated): two run() calls on the same task that were in progress at
\* the same time never both escape lock contention: when both have ended, one
\* of them ended with the lock-contention error.
C3_ConcurrentPairOneFails ==
  \A a, b \in Threads :
    (a # b /\ Ended(a) /\ Ended(b) /\ tr[a].task = tr[b].task
       /\ tr[a].conc /\ tr[b].conc)
    => (tr[a].exc = "LockError" \/ tr[b].exc = "LockError")

\* C3 (amended): at no time are two run() calls on the same task between lock
\* acquisition and release, so the task's process never runs twice at once; and
\* a call whose acquisition is attempted while the lock is held ends with the
\* lock-contention error.
C3_MutexAndContention ==
  /\ [](\A a, b \in Threads :
          (a # b /\ Holding(a) /\ Holding(b)) => tr[a].task # tr[b].task)
  /\ [][\A th \in Threads :
          (tr[th].pc = "acquire" /\ tr'[th].pc # "acquire"
             /\ FileLockHeld(TaskLock(tasks[tr[th].task])))
          => (tr'[th].pc = "raised" /\ tr'[th].exc = "LockError")]_vars

\* One call is waiting for the task's process while the concurrent call on the
\* same task has ended with the lock-contention error.
C3_Witness ==
  \E a, b \in Threads :
    /\ a # b /\ tr[a].task = tr[b].task
    /\ tr[a].pc = "wait" /\ tr[a].conc
    /\ tr[b].pc = "raised" /\ tr[b].exc = "LockError" /\ tr[b].conc

\* C4: a run() call that finds the task's lock held ends at once with the
\* lock-contention error: its single acquisition attempt is its last step, no
\* hook is invoked, no process is launched, the recorded exit code is
\* unchanged and the lock stays with its holder.
C4_ContentionHasNoEffect ==
  [][\A th \in Threads :
       (tr[th].pc = "acquire" /\ tr'[th].pc # "acquire"
          /\ FileLockHeld(TaskLock(tasks[tr[th].task])))
       => /\ tr'[th].pc = "raised" /\ tr'[th].exc = "LockError"
          /\ tr'[th].ev = <<>>
          /\ tasks' = tasks
          /\ locks' = locks
          /\ nlaunch' = nlaunch]_vars

\* A call has failed on contention while the holder of the lock, another call
\* on the same task, still holds it.
C4_Witness ==
  \E a, b \in Threads :
    /\ a # b /\ tr[a].task = tr[b].task
    /\ tr[b].pc = "raised" /\ tr[b].exc = "LockError" /\ tr[b].ev = <<>>
    /\ Holding(a) /\ locks[TaskLock(tasks[tr[a].task])] = a

\* C5: when a run() call made by Work.run has failed with the lock-contention
\* error, Work.run has raised that error to its caller.
C5_ContentionReachesCaller ==
  (\E th \in WorkThreads : tr[th].pc = "raised" /\ tr[th].exc = "LockError")
  => (wr.pc = "raised" /\ wr.exc = "LockError")

\* C6: in Work.run with num_pythreads = 1, a task's process has been launched
\* only if every task registered before it has been launched once and its
\* run() has returned, and only Main runs tasks.
C6_SequentialInOrder ==
  (wr.n = 1) =>
    /\ \A j \in TaskPositions :
         nlaunch[j] > 0 =>
           \A i \in 1..(j - 1) : nlaunch[i] = 1 /\ i \in finished
    /\ \A j \in TaskPositions :
         (InProgress(Main) /\ tr[Main].task = j) =>
           \A i \in 1..(j - 1) : i \in finished
    /\ \A w \in Workers : tr[w].pc = "idle"

\* The third task's process is running in a sequential Work.run.
C6_Witness ==
  /\ wr.n = 1 /\ wr.pc = "seq" /\ Len(tasks) = MaxTasks
  /\ tr[Main].pc = "wait" /\ tr[Main].task = MaxTasks
  /\ \A i \in 1..(MaxTasks - 1) : i \in finished

\* C7: when Work.run with num_pythreads > 1 has returned, the queue is empty,
\* no worker is inside a run() call, and the run() of every registered task has
\* finished.
C7_PooledReturnMeansAllDone ==
  (wr.pc = "returned" /\ wr.n > 1) =>
    /\ q = <<>>
    /\ unfinished = 0
    /\ \A w \in Workers : wk[w] # "call" /\ ~InProgress(w)
    /\ \A i \in TaskPositions : i \in finished

\* A pooled Work.run over more tasks than workers has returned.
C7_Witness ==
  /\ wr.pc = "returned" /\ wr.n = 2 /\ Len(tasks) = 3
  /\ finished = 1..3

\* C8: under fair scheduling a Work.run with num_pythreads > 1 that has been
\* entered eventually returns.
C8_PooledRunReturns ==
  [](((wr.pc = "enter") /\ wr.n > 1) => <>(wr.pc = "returned"))

\* C9: in Work.run with num_pythreads > 1 and no task lock left on disk
\* beforehand, no run() call ends with the lock-contention error.
C9_DistinctTasksNeverContend ==
  (wr.n > 1 /\ NoStaleTaskLock) =>
    \A th \in WorkThreads : ~(tr[th].pc = "raised" /\ tr[th].exc = "LockError")

\* Two workers hold the locks of two different tasks and both processes run.
C9_Witness ==
  /\ wr.n > 1 /\ NoStaleTaskLock
  /\ \E a, b \in Workers :
       /\ a # b /\ tr[a].pc = "wait" /\ tr[b].pc = "wait"
       /\ tr[a].task # tr[b].task

\* C10: the events of every run() call that acquired the lock follow the order
\* acquire, setup, launch, exit, record, [teardown], release; teardown is
\* invoked, between record and release, exactly when the exit code is zero.
C10_EventOrder ==
  \A th \in Threads :
    /\ tr[th].pc \in {"setup", "wait"} => IsPrefix(tr[th].ev, EventsUpToRecord)
    /\ tr[th].pc = "setup" => tr[th].ev = <<"acquire">>
    /\ tr[th].pc = "wait" => tr[th].ev = <<"acquire", "setup", "launch">>
    /\ tr[th].pc = "release" =>
         /\ tr[th].ev = SubSeq(FullEvents(tr[th].rc), 1, Len(tr[th].ev))
         /\ Len(tr[th].ev) = Len(FullEvents(tr[th].rc)) - 1
         /\ Occurs("teardown", tr[th].ev) <=> (tr[th].rc = 0)
    /\ tr[th].pc = "returned" =>
         /\ \E rc \in ExitCodes : tr[th].ev = FullEvents(rc)
         /\ Occurs("teardown", tr[th].ev) <=> (tr[th].rc = 0)
    /\ tr[th].pc = "raised" =>
         /\ \E rc \in ExitCodes : IsPrefix(tr[th].ev, FullEvents(rc))
         /\ Occurs("teardown", tr[th].ev) =>
              (tr[th].exc = "TeardownError"
                 /\ tasks[tr[th].task].has_return_code)

\* Two calls have returned, one after exit code 0 (with teardown) and one after
\* a non-zero exit code (without).
C10_Witness ==
  \E a, b \in Threads :
    /\ tr[a].pc = "returned" /\ tr[a].rc = 0 /\ Occurs("teardown", tr[a].ev)
    /\ tr[b].pc = "returned" /\ tr[b].rc # 0 /\ ~Occurs("teardown", tr[b].ev)

\* C11: a run() whose process exits with a non-zero code does not raise; it
\* stores that code on the Task and returns it, and return_code then reads
\* the same value.
C11_NonZeroExitIsRecordedAndReturned ==
  \A th \in WorkThreads :
    tr[th].task # 0 =>
      LET f == tr[th]
          t == tasks[f.task]
      IN (Occurs("exit", f.ev) /\ t._return_code # 0) =>
           /\ f.pc \in {"release", "returned"}
           /\ f.exc = "none"
           /\ t.has_return_code
           /\ t._return_code = f.rc
           /\ f.pc = "returned" => return_code(t) = f.rc

C11_Witness ==
  /\ tr[Main].pc = "returned"
  /\ tr[Main].rc = 1
  /\ tr[Main].exc = "none"
  /\ return_code(tasks[tr[Main].task]) = 1

\* C13: in one Work.run call, sequential or pooled, the process of each
\* registered task is launched at most once, whatever its run() raised or
\* returned, and no process is launched for a position that is not registered.
C13_EachTaskLaunchedAtMostOnce ==
  \A i \in 1..MaxTasks :
    /\ nlaunch[i] <= 1
    /\ nlaunch[i] = 1 => i \in TaskPositions

C13_Witness ==
  /\ wr.pc = "returned"
  /\ wr.n = MaxPythreads
  /\ Len(tasks) = MaxTasks
  /\ \A i \in TaskPositions : nlaunch[i] = 1
  /\ \E i \in TaskPositions : tasks[i]._return_code # 0

\* C12: whenever the most recent run() of a Task recorded a non-zero exit
\* code, a get_status() made afterwards returns error.
C12_NonZeroExitMeansErrorStatus ==
  (last.task # 0 /\ last.rc # 0 /\ last.rc # 666) => last.level = "error"

\* C14: whenever the main output passes the completeness check, get_status()
\* returns completed, whatever the log file, the error markers and the stderr
\* file are.
C14_CompleteOutputMeansCompleted ==
  (last.task # 0 /\ last.e.complete) => last.level = "completed"

C14_Witness ==
  /\ last.task # 0
  /\ last.e.complete
  /\ last.e.log_errors
  /\ last.e.stderr = "text"
  /\ last.level = "completed"

\* C15: when the output is not complete and the output and log files both
\* exist, get_status() returns error if either file has error markers or the
\* stderr file is non-empty, and running otherwise.
C15_BothFilesErrorOrRunning ==
  (last.task # 0 /\ ~last.e.complete /\ last.e.output /\ last.e.log) =>
    last.level = IF last.e.main_errors \/ last.e.log_errors \/ last.e.stderr = "text"
                 THEN "error" ELSE "running"

\* C16: when the output is not complete, a non-empty stderr file makes
\* get_status() return error, also when the output or the log file is missing.
C16_StderrForcesErrorAnywhere ==
  (last.task # 0 /\ ~last.e.complete /\ last.e.stderr = "text") => last.level = "error"

\* C17: when the output is not complete and the output file or the log file
\* does not exist, get_status() returns unstarted.
C17_MissingFileMeansUnstarted ==
  (last.task # 0 /\ ~last.e.complete /\ ~(last.e.output /\ last.e.log)) =>
    last.level = "unstarted"

C17_Witness ==
  /\ last.task # 0
  /\ last.e.log
  /\ last.e.log_errors
  /\ ~last.e.output
  /\ last.e.stderr = "text"
  /\ last.level = "unstarted"

\* C18: each of the six comparisons of two Status objects is the comparison of
\* their ranks under completed = 1, unstarted = 2, running = 4, error = 8, so
\* the order is completed < unstarted < running < error and two statuses of
\* one label compare equal.
C18_ComparisonsFollowRank ==
  cmp.made =>
    LET r == [l \in Levels |-> IF l = "completed" THEN 1
                               ELSE IF l = "unstarted" THEN 2
                               ELSE IF l = "running" THEN 4 ELSE 8]
    IN /\ cmp.lt = (r[cmp.a] < r[cmp.b])
       /\ cmp.le = (r[cmp.a] <= r[cmp.b])
       /\ cmp.eq = (r[cmp.a] = r[cmp.b])
       /\ cmp.ne = (r[cmp.a] # r[cmp.b])
       /\ cmp.gt = (r[cmp.a] > r[cmp.b])
       /\ cmp.ge = (r[cmp.a] >= r[cmp.b])
       /\ cmp.a = cmp.b => (cmp.eq /\ cmp.le /\ cmp.ge /\ ~cmp.ne /\ ~cmp.lt /\ ~cmp.gt)

C18_Witness ==
  /\ cmp.made
  /\ cmp.a = "unstarted"
  /\ cmp.b = "running"
  /\ cmp.lt /\ cmp.le /\ cmp.ne /\ ~cmp.eq /\ ~cmp.gt /\ ~cmp.ge

\* C19: for a Work with at least one task, each task having one of the four
\* labels, get_status(only_highest_rank=True) returns error if any task is
\* error, else running if any is running, else unstarted if any is unstarted,
\* else completed; without the flag it returns one Status per task in
\* registration order (wgs.n is the number of tasks at the call).
C19_HighestRankOrFullList ==
  (wgs.pc = "returned" /\ wgs.n > 0) =>
    LET has(l) == \E k \in 1..Len(wgs.list) : wgs.list[k].level = l
    IN IF wgs.flag
       THEN wgs.result = IF has("error") THEN "error"
                         ELSE IF has("running") THEN "running"
                         ELSE IF has("unstarted") THEN "unstarted"
                         ELSE "completed"
       ELSE /\ wgs.result = "list"
            /\ Len(wgs.list) = wgs.n
            /\ \A k \in 1..Len(wgs.list) : wgs.list[k].task = k /\ wgs.list[k].level \in Levels

C19_Witness ==
  /\ wgs.pc = "returned"
  /\ wgs.flag
  /\ wgs.n = MaxTasks
  /\ wgs.list[1].level = "completed"
  /\ wgs.list[2].level = "running"
  /\ wgs.list[3].level = "unstarted"
  /\ wgs.result = "running"

\* C20: build() never overwrites: an input file, files file or job script
\* that exists keeps its content; and it is idempotent: a build() of a task
\* that was built before leaves its directory as it is.
C20_BuildIdempotentNoOverwrite ==
  [][\A i \in 1..MaxTasks :
       LET d == disk.tasks[i]
           d2 == disk'.tasks[i]
       IN /\ \A f \in Files : d[f] # "absent" => d2[f] = d[f]
          /\ disk.nbuild[i] >= 1 => d2 = d]_vars

C20_Witness ==
  \E i \in TaskPositions :
    /\ disk.nbuild[i] = 2
    /\ disk.tasks[i].input_file = "foreign"
    /\ disk.tasks[i].files_file = "generated"
    /\ disk.tasks[i].jobfile = "foreign"
    /\ disk.tasks[i].outfiles_dir

\* C21: get_etotal over a Work of N tasks returns N entries in registration
\* order; entry k is +infinity exactly when reading the GSR file of task k
\* fails, every other entry is the value read, and no failure ends the loop.
C21_EtotalAlignedWithSentinels ==
  obs.op = "get_etotal" =>
    /\ Len(obs.out) = Len(obs.art)
    /\ \A k \in 1..Len(obs.art) :
         /\ obs.out[k] = "inf" <=> obs.art[k] \in {"missing", "corrupt"}
         /\ obs.art[k] \notin {"missing", "corrupt"} => obs.out[k] = obs.art[k]

C21_Witness ==
  /\ obs.op = "get_etotal"
  /\ obs.art = <<"-1.5", "corrupt", "-2.5">>
  /\ obs.out = <<"-1.5", "inf", "-2.5">>

\* C24: resolving a descriptor of task A whose tags are all in the table yields
\* one pair per distinct tag: DEN -> getden_path, WFK -> getwfk_path,
\* SCR -> getscr_path, QPS -> getqps_path, each bound to
\* <workdir of A>/output/out_<tag>.
C24_OnePairPerRequestedTag ==
  LET var == [tag \in {"DEN", "WFK", "SCR", "QPS"} |->
                IF tag = "DEN" THEN "getden_path"
                ELSE IF tag = "WFK" THEN "getwfk_path"
                ELSE IF tag = "SCR" THEN "getscr_path" ELSE "getqps_path"]
  IN (obs.op = "get_varpaths"
        /\ \A k \in 1..Len(obs.d.odata_required) : obs.d.odata_required[k] \in DOMAIN var) =>
       /\ obs.out.exc = "none"
       /\ DOMAIN obs.out.vars =
            {var[obs.d.odata_required[k]] : k \in 1..Len(obs.d.odata_required)}
       /\ \A k \in 1..Len(obs.d.odata_required) :
            obs.out.vars[var[obs.d.odata_required[k]]] =
              tasks[obs.d.task].workdir \o "/output/out_" \o obs.d.odata_required[k]

C24_Witness ==
  /\ obs.op = "get_varpaths"
  /\ obs.d.task = 1
  /\ obs.d.odata_required = <<"DEN">>
  /\ obs.out.exc = "none"
  /\ DOMAIN obs.out.vars = {"getden_path"}
  /\ obs.out.vars["getden_path"] = "/work/task_1/output/out_DEN"

\* C25: d.with_odata(tags) returns a descriptor with the task and task id of d
\* and exactly the given tags, and d is the same after the call as before.
C25_WithOdataReplacesAndKeepsSelf ==
  obs.op = "with_odata" =>
    /\ obs.out.task = obs.d.task
    /\ obs.out.task_id = obs.d.task_id
    /\ obs.out.odata_required = obs.tags
    /\ obs.self = obs.d

C25_Witness ==
  /\ obs.op = "with_odata"
  /\ obs.d.odata_required = <<"DEN">>
  /\ obs.tags = <<"WFK">>
  /\ obs.out.odata_required = <<"WFK">>
  /\ obs.self.odata_required = <<"DEN">>

\* C26: resolving a descriptor that requests a tag outside {DEN, WFK, SCR,
\* QPS}, at any position of its tags, raises the unknown-tag error (KeyError)
\* and returns no mapping.
C26_UnknownTagRaises ==
  (obs.op = "get_varpaths"
     /\ \E k \in 1..Len(obs.d.odata_required) :
          obs.d.odata_required[k] \notin {"DEN", "WFK", "SCR", "QPS"}) =>
    /\ obs.out.exc = "KeyError"
    /\ obs.out.vars = EmptyDict

C26_Witness ==
  /\ obs.op = "get_varpaths"
  /\ obs.d.odata_required = <<"DEN", "XYZ">>
  /\ obs.out.exc = "KeyError"

\* C27: for an extension e that does not start with '_',
\* odata_path_from_ext(e) and odata_path_from_ext('_' + e) are both
\* <workdir>/output/out_<e>.
C27_ExtIsNormalized ==
  obs.op = "odata_path_from_ext" =>
    \E e \in {"GSR", "DEN"} :
      /\ obs.ext \in {e, "_" \o e}
      /\ obs.out = tasks[obs.task].workdir \o "/output/out_" \o e

C27_Witness ==
  /\ obs.op = "odata_path_from_ext"
  /\ obs.ext = "GSR"
  /\ obs.task = 2
  /\ obs.out = "/work/task_2/output/out_GSR"

\* C28: each of AbinitTask.to_dict, AbinitTask.from_dict, Work.to_dict,
\* Work.from_dict and AbinitTask.get_runhints ends in the not-implemented
\* failure (NotImplementedError) and returns nothing.
C28_UnsupportedRaiseNotImplemented ==
  obs.op \in {"AbinitTask.to_dict", "AbinitTask.from_dict", "AbinitTask.get_runhints",
              "Work.to_dict", "Work.from_dict"} =>
    /\ ~obs.returned
    /\ obs.exc = "NotImplementedError"

\* C22: the k-th successful register_input creates a Task with working
\* directory <work directory>/task_k, appends it as the k-th Task, stores the
\* depends it was given under key k, and returns a descriptor of that Task
\* with task id k and no requested tag, which resolves to no binding.
C22_RegisterCreatesTaskK ==
  /\ Len(deps) = Len(tasks)
  /\ (obs.op = "register_input" /\ obs.exc = "none") =>
       LET k == Len(tasks)
       IN /\ k >= 1
          /\ tasks[k].workdir = WorkDir \o "/task_" \o ToString(k)
          /\ deps[k] = obs.depends
          /\ obs.out.task = k
          /\ obs.out.task_id = k
          /\ obs.out.odata_required = <<>>
          /\ get_varpaths(obs.out) = [exc |-> "none", vars |-> EmptyDict]

C22_Witness ==
  /\ obs.op = "register_input"
  /\ obs.exc = "none"
  /\ Len(tasks) = 3
  /\ Len(obs.depends) = 2
  /\ obs.out.task_id = 3
  /\ tasks[3].workdir = "/work/task_3"

\* C23: the bindings given to a newly registered Task are those resolved
\* from the supplied descriptors: a variable is bound iff some descriptor
\* resolves it, and its value is the one of the last descriptor that does;
\* a registration without dependencies gives none.
C23_LaterDependencyWins ==
  (obs.op = "register_input" /\ obs.exc = "none") =>
    LET t == tasks[Len(tasks)]
        ds == obs.depends
        var(tag) == IF tag = "DEN" THEN "getden_path"
                    ELSE IF tag = "WFK" THEN "getwfk_path" ELSE "getscr_path"
        resolves(i, v) == var(ds[i].odata_required[1]) = v
        path(i) == tasks[ds[i].task].workdir \o "/output/out_" \o ds[i].odata_required[1]
    IN IF ds = <<>> THEN ~t.varpaths.given /\ t.varpaths.vars = EmptyDict
       ELSE /\ t.varpaths.given
            /\ DOMAIN t.varpaths.vars = {var(ds[i].odata_required[1]) : i \in 1..Len(ds)}
            /\ \A i \in 1..Len(ds) :
                 (\A j \in (i + 1)..Len(ds) : ~resolves(j, var(ds[i].odata_required[1]))) =>
                   t.varpaths.vars[var(ds[i].odata_required[1])] = path(i)

C23_Witness ==
  /\ obs.op = "register_input"
  /\ obs.exc = "none"
  /\ Len(tasks) = 3
  /\ obs.depends = <<TaskDependencies(1, 1, <<"DEN">>), TaskDependencies(2, 2, <<"DEN">>)>>
  /\ DOMAIN tasks[3].varpaths.vars = {"getden_path"}
  /\ tasks[3].varpaths.vars["getden_path"] = "/work/task_2/output/out_DEN"

\* C29: no build(), run() or get_status() call changes the working directory
\* of a constructed Task (from which the paths of its file handles derive) or
\* the bindings stored with its input; only the recorded exit code changes.
C29_TaskLayoutIsImmutable ==
  [][\A i \in 1..Len(tasks) :
       /\ i <= Len(tasks')
       /\ tasks'[i].workdir = tasks[i].workdir
       /\ tasks'[i].varpaths = tasks[i].varpaths]_vars

C29_Witness ==
  \E i \in TaskPositions :
    /\ tasks[i].varpaths.given
    /\ DOMAIN tasks[i].varpaths.vars = {"getden_path"}
    /\ disk.nbuild[i] = 1
    /\ last.task = i
    /\ tasks[i].has_return_code
    /\ tasks[i]._return_code = 1

\* C30: through register_input, build, run, start and get_status the Task
\* sequence only grows at its end: position k keeps the Task registered k-th,
\* whose working directory is <work directory>/task_k, so the working
\* directories of a Work are pairwise distinct.
C30_TasksAppendOnly ==
  [][/\ Len(tasks') >= Len(tasks)
     /\ \A k \in 1..Len(tasks) : tasks'[k].workdir = tasks[k].workdir
     /\ \A k \in 1..Len(tasks') : tasks'[k].workdir = WorkDir \o "/task_" \o ToString(k)
     /\ \A k \in 1..Len(tasks'), m \in 1..Len(tasks') :
          k # m => tasks'[k].workdir # tasks'[m].workdir]_vars

C30_Witness ==
  /\ Len(tasks) = MaxTasks
  /\ st.pc = "returned"
  /\ last.task # 0
  /\ \A k \in TaskPositions : disk.nbuild[k] = 1 /\ tasks[k].has_return_code
  /\ tasks[3].workdir = "/work/task_3"

\* C31: on a Work of any class, start() holds the Work-level lock from before
\* its setup hook until after its teardown hook, every registered Task has
\* been run when the teardown hook is reached, the lock is released when
\* start() has returned, and a second start() begun while the first is in
\* progress ends with lock contention without having run its setup hook.
C31_StartLocksAroundHooksAndTasks ==
  /\ StartInProgress => locks[WorkLock] = Main
  /\ st.pc \in {"teardown", "release", "returned"} => \A i \in TaskPositions : i \in finished
  /\ st.pc = "returned" => locks[WorkLock] # Main
  /\ obs.op = "start" => obs.pc = "raised" /\ obs.exc = "LockError" /\ ~Occurs("setup", obs.ev)

\* C32: the steps of Work.run are possible exactly as in a Work without
\* dependencies, whatever was declared at registration: the sequential loop
\* goes on to its next task as soon as the previous run() has returned, a
\* waiting worker can take the oldest request as soon as the queue holds one,
\* and a run() call can take its lock and launch its process, without regard
\* to the state of the tasks it depends on.
C32_DependenciesAreInert ==
  /\ (wr.pc = "seq" /\ tr[Main].pc \in {"idle", "returned"}) => ENABLED WorkRunSeq
  /\ wr.pc = "put" => ENABLED WorkRunPut
  /\ \A w \in Workers : (wk[w] = "get" /\ q # <<>>) => ENABLED WorkerGet(w)
  /\ \A th \in WorkThreads :
       /\ tr[th].pc = "acquire" => ENABLED TaskRunAcquire(th)
       /\ tr[th].pc = "setup" => ENABLED TaskRunSetupLaunch(th)

\* With two workers, a task that declares a dependency on task 1 has its
\* process running while the process of task 1 is still running.
C32_Witness ==
  /\ wr.n >= 2
  /\ \E a, b \in Workers :
       /\ a # b
       /\ tr[a].pc = "wait" /\ tr[a].task = 1
       /\ tr[b].pc = "wait" /\ tr[b].task > 1
       /\ \E k \in 1..Len(deps[tr[b].task]) : deps[tr[b].task][k].task = 1

\* C33: a newly registered Task reports return_code 666, which is not the
\* success value 0; a Task's return_code changes only in the step in which a
\* run() on it reads the exit code of its process (not while a run() is in
\* progress, not when a run() fails with lock contention), and it then equals
\* that exit code.
C33_ReturnCodeIsLastRecordedExit ==
  [][/\ \A i \in 1..Len(tasks') :
          i > Len(tasks) => return_code(tasks'[i]) = 666 /\ return_code(tasks'[i]) # 0
     /\ \A i \in 1..Len(tasks) :
          LET recording == {th \in Threads : /\ tr[th].pc = "wait" /\ tr[th].task = i
                                             /\ tr'[th].pc # "wait"}
          IN IF recording = {} THEN return_code(tasks'[i]) = return_code(tasks[i])
             ELSE \A th \in recording :
                    /\ return_code(tasks'[i]) = tr'[th].rc
                    /\ return_code(tasks'[i]) \in ExitCodes]_vars

\* Task 1 was run twice: the run() of Work.run recorded 0, the later run() of
\* the other thread recorded 1, which return_code now reports.
C33_Witness ==
  /\ Len(tasks) = 1
  /\ tr[Main].pc = "returned" /\ tr[Main].task = 1 /\ tr[Main].rc = 0
  /\ tr[Other].pc = "returned" /\ tr[Other].task = 1 /\ tr[Other].rc = 1
  /\ return_code(tasks[1]) = 1

C36_FailedTaskDoesNotStopSequentialRun ==
  /\ (wr.pc = "returned" /\ wr.n = 1) =>
       \A i \in TaskPositions :
         /\ i \in finished /\ nlaunch[i] = 1
         /\ return_code(tasks[i]) \in ExitCodes
  /\ (wr.pc = "seq" /\ tr[Main].pc = "returned" /\ tr[Main].rc # 0) => ENABLED WorkRunSeq

\* Three tasks run sequentially: the first exited with 1, the second with 0,
\* and the Work has returned.
C36_Witness ==
  /\ wr.pc = "returned" /\ wr.n = 1
  /\ Len(tasks) = 3
  /\ return_code(tasks[1]) = 1
  /\ return_code(tasks[2]) = 0
  /\ 3 \in finished

\* C37: a register_input call one of whose descriptors requests a tag outside
\* the table ends with the unknown-tag error and changes neither the task
\* list nor the recorded dependencies; the successful registration that
\* follows a failed one creates the task with the next free index, the one
\* the failed call would have used.
C37_FailedRegistrationLeavesWorkUnchanged ==
  [][obs'.op = "register_input" =>
       LET unknown(ds) == \E k \in 1..Len(ds) : \E m \in 1..Len(ds[k].odata_required) :
                            ds[k].odata_required[m] \notin {"DEN", "WFK", "SCR", "QPS"}
           k == Len(tasks) + 1
       IN /\ unknown(obs'.depends) =>
               obs'.exc = "KeyError" /\ tasks' = tasks /\ deps' = deps
          /\ (obs.op = "register_input" /\ obs.exc = "KeyError" /\ obs'.exc = "none") =>
               /\ Len(tasks') = k /\ Len(deps') = k
               /\ obs'.out.task_id = k
               /\ tasks'[k].workdir = WorkDir \o "/task_" \o ToString(k)]_vars

\* With two tasks registered, a registration that depends on task 1 with a
\* known tag and on task 2 with an unknown one has failed.
C37_Witness ==
  /\ obs.op = "register_input"
  /\ obs.exc = "KeyError"
  /\ obs.depends = <<TaskDependencies(1, 1, <<"DEN">>), TaskDependencies(2, 2, <<"XYZ">>)>>
  /\ Len(tasks) = 2 /\ Len(deps) = 2

\* C38: every get_status() call returns a Status whose level is one of
\* completed, unstarted, running, error, whatever files the task directory
\* holds; no exception leaves the call.
C38_GetStatusIsTotal ==
  last.task # 0 => last.level \in Levels

\* C39: the lock of the k-th Task is <work>/task_k/__lock__ and the Work-level
\* lock is <work>/__lock__, all pairwise distinct; a run() call fails with
\* lock contention exactly when the lock file of its own Task exists
\* (whoever holds the Work-level lock), and start() fails with lock
\* contention exactly when <work>/__lock__ exists (whatever Task locks are
\* held).
C39_WorkAndTaskLocksAreIndependent ==
  [][LET work_lock == WorkDir \o "/__lock__"
         task_lock(k) == WorkDir \o "/task_" \o ToString(k) \o "/__lock__"
     IN /\ WorkLock = work_lock
        /\ \A k \in 1..Len(tasks) :
             /\ TaskLock(tasks[k]) = task_lock(k)
             /\ task_lock(k) # work_lock
             /\ \A j \in 1..Len(tasks) : j # k => task_lock(j) # task_lock(k)
        /\ \A th \in Threads :
             (tr[th].pc = "acquire" /\ tr'[th].pc # "acquire") =>
               /\ tr'[th].pc \in {"setup", "raised"}
               /\ tr'[th].pc = "raised" <=> locks[task_lock(tr[th].task)] # Free
               /\ tr'[th].pc = "raised" => tr'[th].exc = "LockError"
        /\ (st.pc = "acquire" /\ st'.pc # "acquire") =>
             /\ st'.pc \in {"setup", "raised"}
             /\ st'.pc = "raised" <=> locks[work_lock] # Free]_vars

\* start() holds the Work-level lock and is running task 1, which has taken
\* its own lock, while the lock file of task 2 is left over from an earlier
\* process.
C39_Witness ==
  /\ st.pc = "run"
  /\ locks[WorkLock] = Main
  /\ Len(tasks) >= 2
  /\ tr[Main].pc = "wait" /\ tr[Main].task = 1
  /\ locks[TaskLock(tasks[1])] = Main
  /\ locks[TaskLock(tasks[2])] = Stale

\* C40: under fair scheduling every call of Work.run ends, whatever the value
\* of num_pythreads; called with num_pythreads below 1 on a Work with at least
\* one Task, it returns after every Task has been run.
C40_RunTerminatesForEveryConcurrency ==
  /\ [](wr.pc = "enter" => <>(wr.pc \in {"returned", "raised"}))
  /\ []((wr.pc = "enter" /\ wr.n < 1 /\ Len(tasks) >= 1) =>
          <>(wr.pc = "returned" /\ \A i \in TaskPositions : i \in finished))

====
